---- MODULE Spec2Model ----
(***************************************************************************)
(* korean-postalcode: the data-access core (repository, service,          *)
(* importer) as a state machine.                                           *)
(*                                                                         *)
(* A Go string is a sequence of one-character strings, so that len(),      *)
(* slicing and strings.TrimSpace are computed and not assumed.             *)
(***************************************************************************)
EXTENDS Integers, Sequences, FiniteSets, TLC

VARIABLES
    db,        \* db[kind]: the rows of postal_code_roads / postal_code_lands
    seq,       \* seq[kind]: the table's AUTO_INCREMENT high-water mark
    dialect,   \* r.db.Dialector.Name(), fixed at construction
    up,        \* up[p]: the Service.Upsert / UpsertLand call of caller p
    imp,       \* the ImportFromFile / ImportLandFromFile call in progress
    call       \* the last query, batch or truncate call made on the Service

vars == <<db, seq, dialect, up, imp, call>>

----------------------------------------------------------------------------
(* Bounds *)

MaxId == 3          \* IDs the two tables' sequences may hand out to Upsert
MaxRows == 3        \* data lines of an import file
MaxBatch == 2       \* largest batchSize a caller passes

----------------------------------------------------------------------------
(* Strings *)

Z01000 == <<"0", "1", "0", "0", "0">>
Z01001 == <<"0", "1", "0", "0", "1">>
Z123 == <<"1", "2", "3">>
P010 == <<"0", "1", "0">>
Empty == <<>>
Seoul == <<"S", "e">>
Gangbuk == <<"G", "b">>
Samyang == <<"S", "y">>
Teheran == <<"T", "h">>
Gangdong == <<"G", "d">>
Mojeon == <<"M", "j">>
Simgok == <<"S", "g">>
En1 == <<"a">>
En2 == <<"b">>
P060 == <<"0", "6", "0">>
Z06000 == <<"0", "6", "0", "0", "0">>
ZBlank == <<" ", "0", "1", "0", "0">>

Kinds == {"road", "land"}
Dialects == {"mysql", "sqlite", "postgres"}
Callers == {1, 2}

IsSpace(c) == c \in {" ", "\t", "\n", "\r"}

RECURSIVE TrimLeft(_)
TrimLeft(s) ==
    IF s # <<>> /\ IsSpace(Head(s)) THEN TrimLeft(Tail(s)) ELSE s

RECURSIVE TrimRight(_)
TrimRight(s) ==
    IF s # <<>> /\ IsSpace(s[Len(s)]) THEN TrimRight(SubSeq(s, 1, Len(s) - 1)) ELSE s

TrimSpace(s) == TrimRight(TrimLeft(s))

\* service.ExtractZipPrefix
ExtractZipPrefix(zipCode) ==
    LET z == TrimSpace(zipCode)
    IN  IF Len(z) >= 3 THEN SubSeq(z, 1, 3) ELSE <<>>

----------------------------------------------------------------------------
(* Records.  ID = 0 is Go's zero value: no surrogate ID. *)

Road(zip, prefix, sido, sigungu, road, en, main) ==
    [ID |-> 0, ZipCode |-> zip, ZipPrefix |-> prefix, SidoName |-> sido,
     SigunguName |-> sigungu, RoadName |-> road, RoadNameEn |-> en,
     StartBuildingMain |-> main]

Land(zip, prefix, sido, sigungu, emd, ri, mountain, main, hjd) ==
    [ID |-> 0, ZipCode |-> zip, ZipPrefix |-> prefix, SidoName |-> sido,
     SigunguName |-> sigungu, EupmyeondongName |-> emd, RiName |-> ri,
     IsMountain |-> mountain, StartJibunMain |-> main,
     HaengjeongdongName |-> hjd]

\* a validation that looks at the province before the zip code
validateSidoFirst(road) ==
    IF road.SidoName = <<>> THEN "sido name is required"
    ELSE IF road.ZipCode = <<>> THEN "zip code is required"
    ELSE IF Len(road.ZipCode) # 5 THEN "zip code must be 5 digits"
    ELSE IF road.RoadName = <<>> THEN "road name is required"
    ELSE ""

\* service.validate: the first failing rule, "" when the record is valid
validate(road) ==
    IF road.ZipCode = <<>> THEN "zip code is required"
    ELSE IF Len(road.ZipCode) # 5 THEN "zip code must be 5 digits"
    ELSE IF road.SidoName = <<>> THEN "sido name is required"
    ELSE IF road.RoadName = <<>> THEN "road name is required"
    ELSE ""

\* service.validateLand
validateLand(land) ==
    IF land.ZipCode = <<>> THEN "zip code is required"
    ELSE IF Len(land.ZipCode) # 5 THEN "zip code must be 5 digits"
    ELSE IF land.SidoName = <<>> THEN "sido name is required"
    ELSE IF land.EupmyeondongName = <<>> THEN "eupmyeondong name is required"
    ELSE ""

Validate(kind, rec) == IF kind = "road" THEN validate(rec) ELSE validateLand(rec)

\* the columns of the UNIQUE index, which BatchCreate names as its conflict target
RoadKey(r) ==
    <<r.ZipCode, r.SidoName, r.SigunguName, r.RoadName, r.StartBuildingMain>>

LandKey(r) ==
    <<r.ZipCode, r.SidoName, r.SigunguName, r.EupmyeondongName, r.RiName,
      r.IsMountain, r.StartJibunMain>>

Key(kind, r) == IF kind = "road" THEN RoadKey(r) ELSE LandKey(r)

\* a scan that forgets the building number
UpsertMatchNoBuilding(e, road) ==
    /\ e.SidoName = road.SidoName
    /\ e.SigunguName = road.SigunguName
    /\ e.RoadName = road.RoadName

\* the comparison Upsert makes in its scan of the rows FindByZipCode returned
UpsertMatch(e, road) ==
    /\ e.SidoName = road.SidoName
    /\ e.SigunguName = road.SigunguName
    /\ e.RoadName = road.RoadName
    /\ e.StartBuildingMain = road.StartBuildingMain

\* the comparison UpsertLand makes in its scan
UpsertLandMatch(e, land) ==
    /\ e.SidoName = land.SidoName
    /\ e.SigunguName = land.SigunguName
    /\ e.EupmyeondongName = land.EupmyeondongName
    /\ e.RiName = land.RiName
    /\ e.IsMountain = land.IsMountain
    /\ e.StartJibunMain = land.StartJibunMain

Match(kind, e, rec) ==
    IF kind = "road" THEN UpsertMatch(e, rec) ELSE UpsertLandMatch(e, rec)

----------------------------------------------------------------------------
(* Repository: the store.  A row is a record with ID > 0. *)

Content(kind, r) == [r EXCEPT !.ID = 0]

\* a store query that matches on the first three characters only
FindByZipCodeLoose(kind, zipCode) ==
    {r \in db[kind] : SubSeq(r.ZipCode, 1, 3) = SubSeq(zipCode, 1, 3)}

\* gormRepository.FindByZipCode / FindLandByZipCode
FindByZipCode(kind, zipCode) == {r \in db[kind] : r.ZipCode = zipCode}

KeyTaken(kind, rows, rec) ==
    \E e \in rows : e.ID # rec.ID /\ Key(kind, e) = Key(kind, rec)

Max(a, b) == IF a >= b THEN a ELSE b

\* gormRepository.Create / CreateLand: one INSERT; the UNIQUE index rejects a
\* second row with the same natural key.  The outcome is the new table, the
\* new sequence value, the record as the caller sees it and the error.
Create(kind, rec) ==
    LET id == IF rec.ID > 0 THEN rec.ID ELSE seq[kind] + 1
        row == [rec EXCEPT !.ID = id]
    IN  IF KeyTaken(kind, db[kind], row) \/ (\E e \in db[kind] : e.ID = id)
        THEN [rows |-> db[kind], seq |-> seq[kind], rec |-> rec,
              err |-> "constraint failed"]
        ELSE [rows |-> db[kind] \cup {row}, seq |-> Max(seq[kind], id),
              rec |-> row, err |-> ""]

\* an update that reports success and writes nothing
UpdateSkipsWrite(kind, rec) ==
    [rows |-> db[kind], seq |-> seq[kind], rec |-> rec, err |-> ""]

\* gormRepository.Update / UpdateLand: db.Save, an UPDATE by primary key
\* that falls back to an INSERT when no row carries the ID.
Update(kind, rec) ==
    IF rec.ID = 0 THEN Create(kind, rec)
    ELSE IF KeyTaken(kind, db[kind], rec)
    THEN [rows |-> db[kind], seq |-> seq[kind], rec |-> rec,
          err |-> "constraint failed"]
    ELSE [rows |-> {e \in db[kind] : e.ID # rec.ID} \cup {rec},
          seq |-> Max(seq[kind], rec.ID), rec |-> rec, err |-> ""]

\* a plain INSERT, without the ON CONFLICT clause
UpsertRowInsertOnly(kind, st, rec) ==
    [rows |-> st.rows \cup {[rec EXCEPT !.ID = st.seq + 1]}, seq |-> st.seq + 1]

\* one row of BatchCreate's INSERT ... ON CONFLICT (natural key) DO UPDATE:
\* a row with the record's natural key keeps its ID and takes every other
\* column of the record; otherwise the record is inserted under the next ID
UpsertRow(kind, st, rec) ==
    LET hit == {e \in st.rows : Key(kind, e) = Key(kind, rec)}
    IN  IF hit # {}
        THEN [rows |-> (st.rows \ hit) \cup {[rec EXCEPT !.ID = e.ID] : e \in hit},
              seq |-> st.seq]
        ELSE [rows |-> st.rows \cup {[rec EXCEPT !.ID = st.seq + 1]},
              seq |-> st.seq + 1]

RECURSIVE UpsertRows(_, _, _)
UpsertRows(kind, st, recs) ==
    IF recs = <<>> THEN st
    ELSE UpsertRows(kind, UpsertRow(kind, st, Head(recs)), Tail(recs))

\* gormRepository.BatchCreate / BatchCreateLand: one statement, which either
\* fails as a whole (fault) or applies every record in order
BatchCreate(kind, recs, fault) ==
    IF fault
    THEN [rows |-> db[kind], seq |-> seq[kind], err |-> "store error"]
    ELSE LET st == UpsertRows(kind, [rows |-> db[kind], seq |-> seq[kind]], recs)
         IN  [rows |-> st.rows, seq |-> st.seq, err |-> ""]

\* the statements gormRepository.TruncateRoad / TruncateLand issue, and the
\* statement that fails (0: none)
TruncateFaults == IF dialect = "sqlite" THEN {0, 1, 2} ELSE {0, 1}

\* a truncate that reports success and deletes nothing
TruncateKeepsRows(kind, fault) ==
    [rows |-> db[kind], seq |-> seq[kind], err |-> IF fault = 0 THEN "" ELSE "store error"]

\* gormRepository.TruncateRoad / TruncateLand
\*   mysql:  TRUNCATE TABLE, which also resets AUTO_INCREMENT
\*   sqlite: DELETE FROM the table, then DELETE FROM sqlite_sequence
\*   other:  DELETE FROM the table only
TruncateRoad(kind, fault) ==
    IF fault = 1
    THEN [rows |-> db[kind], seq |-> seq[kind], err |-> "store error"]
    ELSE IF dialect = "mysql"
    THEN [rows |-> {}, seq |-> 0, err |-> ""]
    ELSE IF dialect = "sqlite"
    THEN IF fault = 2
         THEN [rows |-> {}, seq |-> seq[kind], err |-> "store error"]
         ELSE [rows |-> {}, seq |-> 0, err |-> ""]
    ELSE [rows |-> {}, seq |-> seq[kind], err |-> ""]

----------------------------------------------------------------------------
(* Service.Upsert / UpsertLand, one call per caller p.                     *)
(*   UpsertCall:  validate, derive ZipPrefix, then either the direct       *)
(*                Update (ID set) or the FindByZipCode statement           *)
(*   UpsertWrite: the scan of the rows found and the Update or Create      *)

\* arg is the record as the caller passed it, rec the caller's record as the
\* call has left it so far
IdleCall == [pc |-> "idle", kind |-> "road", arg |-> <<>>, rec |-> <<>>,
             existing |-> {}, op |-> "", err |-> ""]

\* a scan over the table as it is at the write, not over the rows found earlier
ScanCurrentTable(kind, existing, rec) ==
    {e \in FindByZipCode(kind, rec.ZipCode) : Match(kind, e, rec)}

\* the rows of `existing' that Upsert's scan accepts; at most one under the index
Scan(kind, existing, rec) == {e \in existing : Match(kind, e, rec)}

UpsertCall(p, kind, rec0) ==
    /\ up[p].pc \in {"idle", "done"}
    /\ LET verr == Validate(kind, rec0)
           rec == IF rec0.ZipPrefix = <<>>
                  THEN [rec0 EXCEPT !.ZipPrefix = ExtractZipPrefix(rec0.ZipCode)]
                  ELSE rec0
       IN  IF verr # ""
           THEN /\ up' = [up EXCEPT ![p] = [pc |-> "done", kind |-> kind,
                              arg |-> rec0, rec |-> rec0, existing |-> {},
                              op |-> "", err |-> verr]]
                /\ UNCHANGED <<db, seq>>
           ELSE IF rec.ID > 0
           THEN LET out == Update(kind, rec)
                IN  /\ db' = [db EXCEPT ![kind] = out.rows]
                    /\ seq' = [seq EXCEPT ![kind] = out.seq]
                    /\ up' = [up EXCEPT ![p] = [pc |-> "done", kind |-> kind,
                                  arg |-> rec0, rec |-> out.rec,
                                  existing |-> {},
                                  op |-> "update", err |-> out.err]]
           ELSE /\ up' = [up EXCEPT ![p] = [pc |-> "found", kind |-> kind,
                              arg |-> rec0, rec |-> rec,
                              existing |-> FindByZipCode(kind, rec.ZipCode),
                              op |-> "", err |-> ""]]
                /\ UNCHANGED <<db, seq>>
    /\ UNCHANGED <<dialect, imp, call>>

UpsertWrite(p) ==
    /\ up[p].pc = "found"
    /\ LET kind == up[p].kind
           rec == up[p].rec
           hits == Scan(kind, up[p].existing, rec)
       IN  IF hits # {}
           THEN LET e == CHOOSE e \in hits : \A f \in hits : e.ID <= f.ID
                    out == Update(kind, [rec EXCEPT !.ID = e.ID])
                IN  /\ db' = [db EXCEPT ![kind] = out.rows]
                    /\ seq' = [seq EXCEPT ![kind] = out.seq]
                    /\ up' = [up EXCEPT ![p].pc = "done", ![p].rec = out.rec,
                                        ![p].op = "update", ![p].err = out.err]
           ELSE /\ seq["road"] + seq["land"] < MaxId
                /\ LET out == Create(kind, rec)
                   IN  /\ db' = [db EXCEPT ![kind] = out.rows]
                       /\ seq' = [seq EXCEPT ![kind] = out.seq]
                       /\ up' = [up EXCEPT ![p].pc = "done", ![p].rec = out.rec,
                                           ![p].op = "create", ![p].err = out.err]
    /\ UNCHANGED <<dialect, imp, call>>

----------------------------------------------------------------------------
(* Service.BatchUpsert / BatchUpsertLand and the pass-through truncate *)

RECURSIVE ValidRecords(_, _)
\* the loop of BatchUpsert: invalid records are skipped, valid ones get their
\* ZipPrefix derived when it is empty and are appended in input order
ValidRecords(kind, recs) ==
    IF recs = <<>> THEN <<>>
    ELSE LET r == Head(recs)
             rest == ValidRecords(kind, Tail(recs))
         IN  IF Validate(kind, r) # "" THEN rest
             ELSE IF r.ZipPrefix = <<>>
             THEN <<[r EXCEPT !.ZipPrefix = ExtractZipPrefix(r.ZipCode)]>> \o rest
             ELSE <<r>> \o rest

\* a batch that fails as soon as one record is invalid
BatchUpsertAllOrNothing(kind, recs, fault) ==
    LET valid == ValidRecords(kind, recs)
    IN  IF Len(valid) < Len(recs) \/ Len(valid) = 0
        THEN [rows |-> db[kind], seq |-> seq[kind],
              err |-> "no valid records in batch", store |-> <<>>]
        ELSE LET out == BatchCreate(kind, valid, fault)
             IN  [rows |-> out.rows, seq |-> out.seq, err |-> out.err,
                  store |-> <<valid>>]

\* service.BatchUpsert / BatchUpsertLand; store lists the arguments of the
\* BatchCreate calls it made
BatchUpsert(kind, recs, fault) ==
    LET valid == ValidRecords(kind, recs)
    IN  IF Len(valid) = 0
        THEN [rows |-> db[kind], seq |-> seq[kind],
              err |-> "no valid records in batch", store |-> <<>>]
        ELSE LET out == BatchCreate(kind, valid, fault)
             IN  [rows |-> out.rows, seq |-> out.seq, err |-> out.err,
                  store |-> <<valid>>]

----------------------------------------------------------------------------
(* Importer.  A file is missing, unreadable, or a sequence of lines: a     *)
(* header line (header = its column count, 0 when the file has no line at  *)
(* all) and data lines, each with its column count and the values of its   *)
(* columns as a record.                                                    *)

RoadColumns == 15
LandColumns == 14
DefaultBatchSize == 1000

RequiredColumns(kind) == IF kind = "road" THEN RoadColumns ELSE LandColumns

\* countDataLines: the lines of the file but the first
countDataLines(file) ==
    IF file.state # "ok" THEN [n |-> 0, err |-> "open or read failed"]
    ELSE IF file.header = 0 THEN [n |-> 0, err |-> ""]
    ELSE [n |-> Len(file.lines), err |-> ""]

\* the field mapping of ParseFile / ParseLandFile for one data line
ParseLine(kind, line) ==
    LET zipCode == TrimSpace(line.rec.ZipCode)
        zipPrefix == IF Len(zipCode) >= 3 THEN SubSeq(zipCode, 1, 3) ELSE <<>>
        base == [line.rec EXCEPT !.ID = 0, !.ZipCode = zipCode,
                                 !.ZipPrefix = zipPrefix,
                                 !.SidoName = TrimSpace(@),
                                 !.SigunguName = TrimSpace(@)]
    IN  IF kind = "road"
        THEN [base EXCEPT !.RoadName = TrimSpace(@), !.RoadNameEn = TrimSpace(@)]
        ELSE [base EXCEPT !.EupmyeondongName = TrimSpace(@),
                          !.RiName = TrimSpace(@),
                          !.HaengjeongdongName = TrimSpace(@)]

RECURSIVE ParseLinesStopAtShort(_, _)
\* a read loop that gives up at the first line with too few columns
ParseLinesStopAtShort(kind, lines) ==
    IF lines = <<>> THEN <<>>
    ELSE IF Head(lines).cols < RequiredColumns(kind) THEN <<>>
    ELSE <<ParseLine(kind, Head(lines))>> \o ParseLinesStopAtShort(kind, Tail(lines))

RECURSIVE ParseLines(_, _)
\* the read loop of ParseFile: a line with too few columns is noted as a
\* parse error and skipped, every other line appends its record
ParseLines(kind, lines) ==
    IF lines = <<>> THEN <<>>
    ELSE IF Head(lines).cols < RequiredColumns(kind)
    THEN ParseLines(kind, Tail(lines))
    ELSE <<ParseLine(kind, Head(lines))>> \o ParseLines(kind, Tail(lines))

\* ParseFile / ParseLandFile
ParseFile(kind, file) ==
    IF file.state = "missing" THEN [recs |-> <<>>, err |-> "failed to open file"]
    ELSE IF file.state # "ok" \/ file.header = 0 THEN [recs |-> <<>>, err |-> "failed to read header"]
    ELSE [recs |-> ParseLines(kind, file.lines), err |-> ""]

NoResult == [TotalCount |-> -1, ErrorCount |-> -1]

IdleImport ==
    [pc |-> "idle", kind |-> "road", file |-> [state |-> "missing"],
     batchSize |-> 0, progressFn |-> FALSE, totalLines |-> 0, recs |-> <<>>,
     i |-> 0, totalCount |-> 0, errorCount |-> 0, result |-> NoResult,
     err |-> "", pre |-> {}, calls |-> <<>>, sent |-> <<>>]

Min(a, b) == IF a <= b THEN a ELSE b

\* an import that takes the batch size as the caller gave it
ImportCallKeepsBatchSize(kind, file, batchSize, progressFn) ==
    /\ imp.pc = "idle"
    /\ imp' = [IdleImport EXCEPT !.pc = "truncate", !.kind = kind,
                  !.file = file, !.batchSize = batchSize,
                  !.progressFn = progressFn, !.pre = db[kind]]
    /\ UNCHANGED <<db, seq, dialect, up, call>>

\* ImportFromFile / ImportLandFromFile is called: batchSize <= 0 becomes 1000.
\* pre remembers the table as it was before the call; calls and sent log the
\* progress callbacks and the batches handed to BatchUpsert.
ImportCall(kind, file, batchSize, progressFn) ==
    /\ imp.pc = "idle"
    /\ imp' = [IdleImport EXCEPT !.pc = "truncate", !.kind = kind,
                  !.file = file,
                  !.batchSize = IF batchSize <= 0 THEN DefaultBatchSize
                                ELSE batchSize,
                  !.progressFn = progressFn, !.pre = db[kind]]
    /\ UNCHANGED <<db, seq, dialect, up, call>>

\* imp.service.TruncateRoad() / TruncateLand()
ImportTruncate(fault) ==
    /\ imp.pc = "truncate"
    /\ LET out == TruncateRoad(imp.kind, fault)
       IN  /\ db' = [db EXCEPT ![imp.kind] = out.rows]
           /\ seq' = [seq EXCEPT ![imp.kind] = out.seq]
           /\ imp' = IF out.err # ""
                     THEN [imp EXCEPT !.pc = "done",
                               !.err = "failed to truncate existing data"]
                     ELSE [imp EXCEPT !.pc = "count"]
    /\ UNCHANGED <<dialect, up, call>>

\* totalLines, err := countDataLines(filePath)
ImportCount ==
    /\ imp.pc = "count"
    /\ LET out == countDataLines(imp.file)
       IN  imp' = IF out.err # ""
                  THEN [imp EXCEPT !.pc = "done", !.err = "failed to count lines"]
                  ELSE [imp EXCEPT !.pc = "parse", !.totalLines = out.n]
    /\ UNCHANGED <<db, seq, dialect, up, call>>

\* roads, err := imp.ParseFile(filePath)
ImportParse ==
    /\ imp.pc = "parse"
    /\ LET out == ParseFile(imp.kind, imp.file)
       IN  imp' = IF out.err # ""
                  THEN [imp EXCEPT !.pc = "done", !.err = "file parsing failed"]
                  ELSE [imp EXCEPT !.pc = "batch", !.recs = out.recs, !.i = 0]
    /\ UNCHANGED <<db, seq, dialect, up, call>>

\* progress reported as the index the batch started at
ProcessedBefore(i, n) == i

\* the value the batch loop hands to progressFn
Processed(i, n) == i + n

\* a loop that submits a failed batch again
NextIndexRetry(i, batchSize, failed) == IF failed THEN i ELSE i + batchSize

\* the loop's step: i += batchSize
NextIndex(i, batchSize, failed) == i + batchSize

\* a failed batch counted as one error
BatchErrorsOne(errorCount, n, failed) == IF failed THEN errorCount + 1 ELSE errorCount

\* errorCount += len(batch) on a failed batch
BatchErrors(errorCount, n, failed) == IF failed THEN errorCount + n ELSE errorCount

\* totalCount += len(batch) on a stored batch
BatchSuccesses(totalCount, n, failed) == IF failed THEN totalCount ELSE totalCount + n

\* one iteration of the batch loop: roads[i:end] goes to BatchUpsert, the
\* batch is counted as a whole, progressFn is called when it is not nil
ImportBatch(fault) ==
    /\ imp.pc = "batch"
    /\ imp.i < Len(imp.recs)
    /\ LET end == Min(imp.i + imp.batchSize, Len(imp.recs))
           batch == SubSeq(imp.recs, imp.i + 1, end)
           out == BatchUpsert(imp.kind, batch, fault)
           failed == out.err # ""
       IN  /\ db' = [db EXCEPT ![imp.kind] = out.rows]
           /\ seq' = [seq EXCEPT ![imp.kind] = out.seq]
           /\ imp' = [imp EXCEPT
                  !.errorCount = BatchErrors(@, Len(batch), failed),
                  !.totalCount = BatchSuccesses(@, Len(batch), failed),
                  !.calls = IF imp.progressFn
                            THEN Append(@, <<Processed(imp.i, Len(batch)),
                                             Len(imp.recs)>>)
                            ELSE @,
                  !.sent = Append(@, [from |-> imp.i, to |-> end,
                                      failed |-> failed]),
                  !.i = NextIndex(@, imp.batchSize, failed)]
    /\ UNCHANGED <<dialect, up, call>>

\* parseErrors := totalLines - len(roads)
ParseErrors(totalLines, n) == totalLines - n

\* the loop is over: the parse errors are added and the result is returned
ImportReturn ==
    /\ imp.pc = "batch"
    /\ imp.i >= Len(imp.recs)
    /\ imp' = [imp EXCEPT !.pc = "done",
                  !.errorCount = @ + ParseErrors(imp.totalLines, Len(imp.recs)),
                  !.result = [TotalCount |-> imp.totalCount,
                              ErrorCount |-> imp.errorCount
                                  + ParseErrors(imp.totalLines, Len(imp.recs))]]
    /\ UNCHANGED <<db, seq, dialect, up, call>>

----------------------------------------------------------------------------
(* Callers' records *)

RoadBase == Road(Z01000, Empty, Seoul, Gangbuk, Samyang, En1, 93)

\* records without a surrogate ID: the base record, the same natural key with
\* another attribute, one record per key column that differs, invalid records
RoadInputs ==
    { RoadBase,
      [RoadBase EXCEPT !.RoadNameEn = En2],
      [RoadBase EXCEPT !.ZipCode = Z01001],
      [RoadBase EXCEPT !.SigunguName = Empty],
      [RoadBase EXCEPT !.RoadName = Teheran],
      [RoadBase EXCEPT !.StartBuildingMain = 1],
      [RoadBase EXCEPT !.ZipCode = Z123] }

LandBase == Land(Z01000, Empty, Seoul, Gangbuk, Gangdong, Mojeon, FALSE, 2, En1)

LandInputs ==
    { LandBase,
      [LandBase EXCEPT !.HaengjeongdongName = En2],
      [LandBase EXCEPT !.RiName = Simgok],
      [LandBase EXCEPT !.IsMountain = TRUE],
      [LandBase EXCEPT !.EupmyeondongName = Empty] }

Inputs(kind) == IF kind = "road" THEN RoadInputs ELSE LandInputs

\* no query, batch or truncate call has been made
NoCall == [op |-> "none", kind |-> "road", arg |-> <<>>, err |-> "",
           store |-> <<>>, rows |-> {}, pre |-> {}, post |-> {}]

Init ==
    /\ db = [k \in Kinds |-> {}]
    /\ seq = [k \in Kinds |-> 0]
    /\ dialect \in Dialects
    /\ up = [p \in Callers |-> IdleCall]
    /\ imp = IdleImport
    /\ call = NoCall

----------------------------------------------------------------------------
(* Import files: data lines are a well-formed line, a second one whose zip *)
(* column carries a trailing blank, a line with every column but an empty  *)
(* road / eupmyeondong name, and a line with too few columns.              *)

Z01001Blank == <<"0", "1", "0", "0", "1", " ">>
ShortColumns == 4

RoadLines ==
    { [cols |-> RoadColumns, rec |-> RoadBase],
      [cols |-> RoadColumns,
       rec |-> [RoadBase EXCEPT !.ZipCode = Z01001Blank, !.RoadNameEn = En2]],
      [cols |-> RoadColumns, rec |-> [RoadBase EXCEPT !.RoadName = Empty]],
      [cols |-> ShortColumns, rec |-> RoadBase] }

LandLines ==
    { [cols |-> LandColumns, rec |-> LandBase],
      [cols |-> LandColumns,
       rec |-> [LandBase EXCEPT !.ZipCode = Z01001Blank, !.IsMountain = TRUE]],
      [cols |-> LandColumns, rec |-> [LandBase EXCEPT !.EupmyeondongName = Empty]],
      [cols |-> ShortColumns, rec |-> LandBase] }

Lines(kind) == IF kind = "road" THEN RoadLines ELSE LandLines

SeqsUpTo(S, n) == UNION {[1..k -> S] : k \in 0..n}

Files(kind) ==
    { [state |-> "missing", header |-> 0, lines |-> <<>>],
      [state |-> "unreadable", header |-> 0, lines |-> <<>>],
      [state |-> "ok", header |-> 0, lines |-> <<>>] }
    \cup { [state |-> "ok", header |-> RequiredColumns(kind), lines |-> l] :
             l \in SeqsUpTo(Lines(kind), MaxRows) }

\* the tables an import finds: a row no file supplies and a row equal to the
\* record of the first well-formed line
SeedRows(kind) ==
    IF kind = "road"
    THEN { [RoadBase EXCEPT !.ID = 1, !.ZipPrefix = P010, !.RoadName = Teheran],
           [RoadBase EXCEPT !.ID = 2, !.ZipPrefix = P010] }
    ELSE { [LandBase EXCEPT !.ID = 1, !.ZipPrefix = P010, !.RiName = Simgok],
           [LandBase EXCEPT !.ID = 2, !.ZipPrefix = P010] }

InitImport ==
    /\ db = [k \in Kinds |-> SeedRows(k)]
    /\ seq = [k \in Kinds |-> 2]
    /\ dialect \in Dialects
    /\ up = [p \in Callers |-> IdleCall]
    /\ imp = IdleImport
    /\ call = NoCall

ImpCall ==
    \E kind \in Kinds : \E file \in Files(kind) :
        \E batchSize \in 0..MaxBatch : \E progressFn \in BOOLEAN :
            ImportCall(kind, file, batchSize, progressFn)

ImpTruncate == \E fault \in TruncateFaults : ImportTruncate(fault)

ImpBatch == \E fault \in BOOLEAN : ImportBatch(fault)

ImportNext ==
    ImpCall \/ ImpTruncate \/ ImportCount \/ ImportParse \/ ImpBatch \/ ImportReturn

SpecImport == InitImport /\ [][ImportNext]_vars

\* ImportFromFile runs on the caller's goroutine: once called it goes on, step
\* by step, until it returns
(* The batch loop on its own: imports of files whose lines are well-formed *)
(* or short, into the seeded sqlite tables, without a progress callback.   *)

LoopFiles(kind) ==
    { [state |-> "ok", header |-> RequiredColumns(kind), lines |-> l] :
        l \in SeqsUpTo({ [cols |-> RequiredColumns(kind),
                          rec |-> IF kind = "road" THEN RoadBase ELSE LandBase],
                        [cols |-> ShortColumns,
                         rec |-> IF kind = "road" THEN RoadBase ELSE LandBase] },
                      MaxRows) }

InitLoop == InitImport /\ dialect = "sqlite"

LoopCall ==
    \E kind \in Kinds : \E file \in LoopFiles(kind) :
        \E batchSize \in -1..MaxBatch :
            ImportCall(kind, file, batchSize, FALSE)

LoopNext ==
    LoopCall \/ ImpTruncate \/ ImportCount \/ ImportParse \/ ImpBatch \/ ImportReturn

\* ImportFromFile runs on the caller's goroutine: once called it goes on, step
\* by step, until it returns
SpecLoop == InitLoop /\ [][LoopNext]_vars /\ WF_vars(LoopNext)

----------------------------------------------------------------------------
(* Sequential callers: one Upsert call at a time, each run to completion. *)

SeqCall == \E kind \in Kinds : \E rec \in Inputs(kind) : UpsertCall(1, kind, rec)

SeqWrite == UpsertWrite(1)

SeqNext == SeqCall \/ SeqWrite

SpecSeq == Init /\ [][SeqNext]_vars

----------------------------------------------------------------------------
(* Concurrent callers: two Upsert calls whose statements interleave. *)

\* two records with one natural key, a record with another key, an invalid one
ConcInputs ==
    { RoadBase,
      [RoadBase EXCEPT !.RoadNameEn = En2],
      [RoadBase EXCEPT !.RoadName = Teheran],
      [RoadBase EXCEPT !.ZipCode = Z123] }

ConcCall == \E p \in Callers : \E rec \in ConcInputs : UpsertCall(p, "road", rec)

ConcWrite == \E p \in Callers : UpsertWrite(p)

ConcNext == ConcCall \/ ConcWrite

SpecConc == Init /\ [][ConcNext]_vars

----------------------------------------------------------------------------
(* Batch writes and truncates made on the Service directly.  call keeps    *)
(* the operation, its argument, its outcome, the arguments of the store    *)
(* calls it made and the table before and after it.                        *)

MaxRecs == 2        \* records of a BatchUpsert call made on the Service

\* a record, a second one with its natural key, one with another key, an
\* invalid one
BatchRecords(kind) ==
    IF kind = "road"
    THEN { RoadBase,
           [RoadBase EXCEPT !.RoadNameEn = En2],
           [RoadBase EXCEPT !.ZipCode = Z01001],
           [RoadBase EXCEPT !.RoadName = Empty] }
    ELSE { LandBase,
           [LandBase EXCEPT !.HaengjeongdongName = En2],
           [LandBase EXCEPT !.RiName = Simgok],
           [LandBase EXCEPT !.EupmyeondongName = Empty] }

\* svc.BatchUpsert(recs) / svc.BatchUpsertLand(recs)
BatchUpsertCall(kind, recs, fault) ==
    LET out == BatchUpsert(kind, recs, fault)
    IN  /\ out.seq <= MaxId
        /\ db' = [db EXCEPT ![kind] = out.rows]
        /\ seq' = [seq EXCEPT ![kind] = out.seq]
        /\ call' = [op |-> "BatchUpsert", kind |-> kind, arg |-> recs,
                    err |-> out.err, store |-> out.store, rows |-> {},
                    pre |-> db[kind], post |-> out.rows]
        /\ UNCHANGED <<dialect, up, imp>>

\* a truncate whose statements name both tables
TruncateBothTables(kind, fault) ==
    LET out == TruncateRoad(kind, fault)
    IN  /\ db' = [k \in Kinds |-> IF out.rows = {} THEN {} ELSE db[k]]
        /\ seq' = [seq EXCEPT ![kind] = out.seq]
        /\ call' = [op |-> "Truncate", kind |-> kind, arg |-> <<>>,
                    err |-> out.err, store |-> <<>>, rows |-> {},
                    pre |-> db[kind], post |-> out.rows]
        /\ UNCHANGED <<dialect, up, imp>>

\* svc.TruncateRoad() / svc.TruncateLand(): the repository's truncate
TruncateCall(kind, fault) ==
    LET out == TruncateRoad(kind, fault)
    IN  /\ db' = [db EXCEPT ![kind] = out.rows]
        /\ seq' = [seq EXCEPT ![kind] = out.seq]
        /\ call' = [op |-> "Truncate", kind |-> kind, arg |-> <<>>,
                    err |-> out.err, store |-> <<>>, rows |-> {},
                    pre |-> db[kind], post |-> out.rows]
        /\ UNCHANGED <<dialect, up, imp>>

\* the two tables are independent: a run works on the table of its first call
SameTable(kind) == IF call.op = "none" THEN TRUE ELSE call.kind = kind

BatchCall ==
    \E kind \in Kinds : \E recs \in SeqsUpTo(BatchRecords(kind), MaxRecs) :
        \E fault \in BOOLEAN :
            SameTable(kind) /\ BatchUpsertCall(kind, recs, fault)

BatchTruncate ==
    \E kind \in Kinds : \E fault \in TruncateFaults :
        SameTable(kind) /\ TruncateCall(kind, fault)

BatchNext == BatchCall \/ BatchTruncate

SpecBatch == Init /\ [][BatchNext]_vars

----------------------------------------------------------------------------
(* Queries made on the Service *)

\* the queries and Upsert issue the same statements under every dialect; the
\* service tests run on in-memory SQLite
InitOne == Init /\ dialect = "sqlite"

\* service.GetByZipCode / GetLandByZipCode; store lists the arguments of the
\* FindByZipCode calls it made
GetByZipCode(kind, zipCode) ==
    IF zipCode = <<>>
    THEN [rows |-> {}, err |-> "zip code is required", store |-> <<>>]
    ELSE IF Len(zipCode) # 5
    THEN [rows |-> {}, err |-> "zip code must be 5 digits", store |-> <<>>]
    ELSE [rows |-> FindByZipCode(kind, zipCode), err |-> "", store |-> <<zipCode>>]

\* svc.GetByZipCode(zipCode) / svc.GetLandByZipCode(zipCode)
GetByZipCodeCall(kind, zipCode) ==
    LET out == GetByZipCode(kind, zipCode)
    IN  /\ call' = [op |-> "GetByZipCode", kind |-> kind, arg |-> zipCode,
                    err |-> out.err, store |-> out.store, rows |-> out.rows,
                    pre |-> db[kind], post |-> db[kind]]
        /\ UNCHANGED <<db, seq, dialect, up, imp>>

MaxLimit == 100
DefaultLimit == 10

\* a limit capped at the maximum instead of replaced by the default
ClampLimitToMax(limit) == IF limit > MaxLimit THEN MaxLimit ELSE limit

\* if limit <= 0 || limit > 100 { limit = 10 }
ClampLimit(limit) == IF limit <= 0 \/ limit > MaxLimit THEN DefaultLimit ELSE limit

\* if offset < 0 { offset = 0 }
ClampOffset(offset) == IF offset < 0 THEN 0 ELSE offset

\* a prefix query that counts after the page window is applied
FindByZipPrefixCountsPage(kind, zipPrefix, limit, offset) ==
    LET matching == {r \in db[kind] : r.ZipPrefix = zipPrefix}
        skip == IF offset > 0 THEN offset ELSE 0
        avail == Max(Cardinality(matching) - skip, 0)
        n == IF limit > 0 THEN Min(limit, avail) ELSE avail
    IN  [total |-> n, pages |-> {S \in SUBSET matching : Cardinality(S) = n}]

\* gormRepository.FindByZipPrefix / FindLandByZipPrefix: the count of the rows
\* with the prefix and one page of them.  The query has no ORDER BY, so the
\* page is any set of the right size among the matching rows.
FindByZipPrefix(kind, zipPrefix, limit, offset) ==
    LET matching == {r \in db[kind] : r.ZipPrefix = zipPrefix}
        total == Cardinality(matching)
        skip == IF offset > 0 THEN offset ELSE 0
        avail == Max(total - skip, 0)
        n == IF limit > 0 THEN Min(limit, avail) ELSE avail
    IN  [total |-> total, pages |-> {S \in SUBSET matching : Cardinality(S) = n}]

\* service.GetByZipPrefix / GetLandByZipPrefix
GetByZipPrefix(kind, zipPrefix, limit, offset) ==
    IF zipPrefix = <<>>
    THEN [pages |-> {{}}, total |-> 0, err |-> "zip prefix is required",
          store |-> <<>>]
    ELSE IF Len(zipPrefix) # 3
    THEN [pages |-> {{}}, total |-> 0, err |-> "zip prefix must be 3 digits",
          store |-> <<>>]
    ELSE LET l == ClampLimit(limit)
             o == ClampOffset(offset)
             out == FindByZipPrefix(kind, zipPrefix, l, o)
         IN  [pages |-> out.pages, total |-> out.total, err |-> "",
              store |-> <<[zipPrefix |-> zipPrefix, limit |-> l, offset |-> o]>>]

\* svc.GetByZipPrefix(zipPrefix, limit, offset) and its land twin
GetByZipPrefixCall(kind, zipPrefix, limit, offset) ==
    LET out == GetByZipPrefix(kind, zipPrefix, limit, offset)
    IN  /\ \E rows \in out.pages :
               call' = [op |-> "GetByZipPrefix", kind |-> kind,
                        arg |-> [zipPrefix |-> zipPrefix, limit |-> limit,
                                 offset |-> offset, total |-> out.total],
                        err |-> out.err, store |-> out.store, rows |-> rows,
                        pre |-> db[kind], post |-> db[kind]]
        /\ UNCHANGED <<db, seq, dialect, up, imp>>

----------------------------------------------------------------------------
(* Queries on tables that batch writes have filled *)

QueryZipCodes == {Empty, Z123, Z01000, Z01001}
QueryPrefixes == {Empty, P010, P060, Z01000}
Limits == {-1, 0, 1, 2, MaxLimit, MaxLimit + 1}
Offsets == {-1, 0, 1, 2}

QueryByZipCode ==
    \E kind \in Kinds : \E zipCode \in QueryZipCodes :
        SameTable(kind) /\ GetByZipCodeCall(kind, zipCode)

QueryByZipPrefix ==
    \E kind \in Kinds : \E zipPrefix \in QueryPrefixes :
        \E limit \in Limits : \E offset \in Offsets :
            SameTable(kind) /\ GetByZipPrefixCall(kind, zipPrefix, limit, offset)

QueryNext == BatchCall \/ QueryByZipCode \/ QueryByZipPrefix

SpecQuery == InitOne /\ [][QueryNext]_vars

----------------------------------------------------------------------------
(* Search.  A filter on a name column is the SQL pattern "%" + filter +    *)
(* "%" given to LIKE, in which % stands for any run of characters and _    *)
(* for any one character, also when they come from the caller's filter.    *)

RECURSIVE Like(_, _)
Like(value, pattern) ==
    IF pattern = <<>> THEN value = <<>>
    ELSE IF Head(pattern) = "%"
    THEN Like(value, Tail(pattern)) \/ (value # <<>> /\ Like(Tail(value), pattern))
    ELSE /\ value # <<>>
         /\ Head(pattern) = "_" \/ Head(pattern) = Head(value)
         /\ Like(Tail(value), Tail(pattern))

\* the condition one non-empty name filter adds to the query
NameFilter(value, filter) ==
    filter = <<>> \/ Like(value, <<"%">> \o filter \o <<"%">>)

\* the WHERE clause Search / SearchLand builds: one condition per non-empty
\* field of params, joined by AND
SearchWhere(kind, params, r) ==
    /\ params.ZipCode = <<>> \/ r.ZipCode = params.ZipCode
    /\ params.ZipPrefix = <<>> \/ r.ZipPrefix = params.ZipPrefix
    /\ NameFilter(r.SidoName, params.SidoName)
    /\ NameFilter(r.SigunguName, params.SigunguName)
    /\ IF kind = "road"
       THEN NameFilter(r.RoadName, params.RoadName)
       ELSE /\ NameFilter(r.EupmyeondongName, params.EupmyeondongName)
            /\ NameFilter(r.RiName, params.RiName)

\* gormRepository.Search / SearchLand: the count of the filtered rows, then
\* Limit(params.Limit) or Limit(10), then Offset((Page-1)*Limit) when that is
\* positive; limit and offset are the values applied to the query
RepoSearch(kind, params) ==
    LET matching == {r \in db[kind] : SearchWhere(kind, params, r)}
        total == Cardinality(matching)
        limit == IF params.Limit > 0 THEN params.Limit ELSE DefaultLimit
        offset == (params.Page - 1) * params.Limit
        skip == IF offset > 0 THEN offset ELSE 0
        n == Min(limit, Max(total - skip, 0))
    IN  [total |-> total, limit |-> limit, offset |-> skip,
         pages |-> {S \in SUBSET matching : Cardinality(S) = n}]

\* a page number handed on as the caller gave it
ClampPageKeep(page) == page

\* if params.Page <= 0 { params.Page = 1 }
ClampPage(page) == IF page <= 0 THEN 1 ELSE page

\* service.Search / SearchLand: the params with Limit and Page clamped go to
\* the store
Search(kind, params) ==
    LET clamped == [params EXCEPT !.Limit = ClampLimit(@), !.Page = ClampPage(@)]
        out == RepoSearch(kind, clamped)
    IN  [total |-> out.total, limit |-> out.limit, offset |-> out.offset,
         pages |-> out.pages, store |-> <<clamped>>]

\* svc.Search(params) / svc.SearchLand(params)
SearchCall(kind, params) ==
    LET out == Search(kind, params)
    IN  /\ \E rows \in out.pages :
               call' = [op |-> "Search", kind |-> kind, arg |-> params,
                        err |-> "", store |-> out.store, rows |-> rows,
                        pre |-> db[kind], post |-> db[kind],
                        total |-> out.total, limit |-> out.limit,
                        offset |-> out.offset]
        /\ UNCHANGED <<db, seq, dialect, up, imp>>

\* repo.Search(params) / repo.SearchLand(params), the store called directly
RepoSearchCall(kind, params) ==
    LET out == RepoSearch(kind, params)
    IN  /\ \E rows \in out.pages :
               call' = [op |-> "Repository.Search", kind |-> kind, arg |-> params,
                        err |-> "", store |-> <<>>, rows |-> rows,
                        pre |-> db[kind], post |-> db[kind],
                        total |-> out.total, limit |-> out.limit,
                        offset |-> out.offset]
        /\ UNCHANGED <<db, seq, dialect, up, imp>>

\* rows a table holds after some writes: two zip codes of one prefix, a third
\* of another prefix , names that share characters and names that do not
StoredRows(kind) ==
    IF kind = "road"
    THEN { [RoadBase EXCEPT !.ID = 1, !.ZipPrefix = P010],
           [RoadBase EXCEPT !.ID = 2, !.ZipCode = Z01001, !.ZipPrefix = P010,
                            !.RoadName = Teheran],
           [RoadBase EXCEPT !.ID = 3, !.ZipCode = Z06000, !.ZipPrefix = P060,
                            !.SigunguName = Empty, !.RoadName = Teheran] }
    ELSE { [LandBase EXCEPT !.ID = 1, !.ZipPrefix = P010],
           [LandBase EXCEPT !.ID = 2, !.ZipCode = Z01001, !.ZipPrefix = P010,
                            !.RiName = Simgok],
           [LandBase EXCEPT !.ID = 3, !.ZipCode = Z06000, !.ZipPrefix = P060,
                            !.SigunguName = Empty, !.RiName = Empty] }

\* the tables hold any of these rows
InitStored ==
    /\ db \in [Kinds -> SUBSET (StoredRows("road") \cup StoredRows("land"))]
    /\ \A k \in Kinds : db[k] \subseteq StoredRows(k)
    /\ seq = [k \in Kinds |-> 3]
    /\ dialect = "sqlite"
    /\ up = [p \in Callers |-> IdleCall]
    /\ imp = IdleImport
    /\ call = NoCall

\* filters: none, an exact zip code or prefix, a character of a name, the
\* LIKE wildcard _, a filter that ends in a blank; pages 0..2 and limits in
\* and out of 1..100
SearchParams(kind) ==
    IF kind = "road"
    THEN [ZipCode : {Empty, Z01000}, ZipPrefix : {Empty, P010},
          SidoName : {Empty, <<"S">>, <<"_">>},
          SigunguName : {Empty, <<"G", " ">>},
          RoadName : {Empty, <<"y">>},
          Page : 0..2, Limit : {-1, 0, 1, 2, MaxLimit + 1}]
    ELSE [ZipCode : {Empty, Z01000}, ZipPrefix : {Empty, P010},
          SidoName : {Empty, <<"S">>, <<"_">>},
          SigunguName : {Empty, <<"G", " ">>},
          EupmyeondongName : {Empty, <<"d">>},
          RiName : {Empty},
          Page : 0..2, Limit : {-1, 0, 1, 2, MaxLimit + 1}]

\* a search reads the tables and writes nothing: one search per behaviour
\* covers them all
ServiceSearch ==
    \E kind \in Kinds : \E params \in SearchParams(kind) :
        call.op = "none" /\ SearchCall(kind, params)

StoreSearch ==
    \E kind \in Kinds : \E params \in SearchParams(kind) :
        call.op = "none" /\ RepoSearchCall(kind, params)

SearchNext == ServiceSearch \/ StoreSearch

SpecSearch == InitStored /\ [][SearchNext]_vars

----------------------------------------------------------------------------
(* Road and land operations side by side: both tables hold rows, then one  *)
(* writing operation of the service or the importer runs on either table,  *)
(* and lookups on both tables follow.                                      *)

\* a file with a well-formed line and a short line, and a file that is not there
MixedFiles(kind) ==
    { [state |-> "missing", header |-> 0, lines |-> <<>>],
      [state |-> "ok", header |-> RequiredColumns(kind),
       lines |-> <<[cols |-> RequiredColumns(kind),
                    rec |-> IF kind = "road" THEN RoadBase ELSE LandBase],
                   [cols |-> ShortColumns,
                    rec |-> IF kind = "road" THEN RoadBase ELSE LandBase]>>] }

\* both tables hold any of the seeded rows
InitMixed ==
    /\ db \in [Kinds -> SUBSET (SeedRows("road") \cup SeedRows("land"))]
    /\ \A k \in Kinds : db[k] \subseteq SeedRows(k)
    /\ seq = [k \in Kinds |-> 2]
    /\ dialect \in Dialects
    /\ up = [p \in Callers |-> IdleCall]
    /\ imp = IdleImport
    /\ call = NoCall

\* nothing has been called yet
Fresh == call.op = "none" /\ up[1].pc = "idle" /\ imp.pc = "idle"

\* no Upsert and no import is under way
Quiet == up[1].pc \in {"idle", "done"} /\ imp.pc \in {"idle", "done"}

MixedUpsert ==
    \E kind \in Kinds : \E rec \in BatchRecords(kind) :
        Fresh /\ UpsertCall(1, kind, rec)

MixedBatch ==
    \E kind \in Kinds : \E recs \in SeqsUpTo(BatchRecords(kind), MaxRecs) :
        \E fault \in BOOLEAN : Fresh /\ BatchUpsertCall(kind, recs, fault)

MixedTruncate ==
    \E kind \in Kinds : \E fault \in TruncateFaults :
        Fresh /\ TruncateCall(kind, fault)

MixedImport ==
    \E kind \in Kinds : \E file \in MixedFiles(kind) :
        \E batchSize \in 0..MaxBatch :
            Fresh /\ ImportCall(kind, file, batchSize, FALSE)

MixedGetByZipCode ==
    \E kind \in Kinds : Quiet /\ GetByZipCodeCall(kind, Z01000)

MixedGetByZipPrefix ==
    \E kind \in Kinds : \E limit \in {1, 2} :
        Quiet /\ GetByZipPrefixCall(kind, P010, limit, 0)

MixedNext ==
    \/ MixedUpsert \/ SeqWrite \/ MixedBatch \/ MixedTruncate
    \/ MixedImport \/ ImpTruncate \/ ImportCount \/ ImportParse \/ ImpBatch
    \/ ImportReturn
    \/ MixedGetByZipCode \/ MixedGetByZipPrefix

SpecMixed == InitMixed /\ [][MixedNext]_vars

----------------------------------------------------------------------------
(* The HTTP adapters: Handler (net/http) and GinHandler (Gin) *)

Digits == {"0", "1", "2", "3", "4", "5", "6", "7", "8", "9"}

DigitValue(c) ==
    CASE c = "0" -> 0 [] c = "1" -> 1 [] c = "2" -> 2 [] c = "3" -> 3
      [] c = "4" -> 4 [] c = "5" -> 5 [] c = "6" -> 6 [] c = "7" -> 7
      [] c = "8" -> 8 [] c = "9" -> 9

RECURSIVE Decimal(_)
Decimal(s) ==
    IF s = <<>> THEN 0
    ELSE 10 * Decimal(SubSeq(s, 1, Len(s) - 1)) + DigitValue(s[Len(s)])

\* strconv.Atoi: an optional sign and one or more decimal digits, nothing
\* else; the strings here are far shorter than the range of int
Atoi(s) ==
    LET signed == s # <<>> /\ Head(s) \in {"+", "-"}
        body == IF signed THEN Tail(s) ELSE s
    IN  IF body = <<>> \/ (\E i \in 1..Len(body) : body[i] \notin Digits)
        THEN [val |-> 0, err |-> TRUE]
        ELSE [val |-> IF s[1] = "-" THEN 0 - Decimal(body) ELSE Decimal(body),
              err |-> FALSE]

\* Handler.sendError, and c.JSON with success false
sendError(statusCode, message) ==
    [status |-> statusCode, success |-> FALSE, data |-> {}, error |-> message,
     total |-> 0]

\* Handler.sendSuccess, and c.JSON(http.StatusOK, ...) with success true
sendSuccess(data, total) ==
    [status |-> 200, success |-> TRUE, data |-> data, error |-> "",
     total |-> total]

\* a zipcode handler that answers 200 with an empty list
HandlerGetByZipCodeNo404(adapter, kind, method, zipCode) ==
    IF adapter = "http" /\ method # "GET"
    THEN sendError(405, "method not allowed")
    ELSE LET out == GetByZipCode(kind, zipCode)
         IN  IF out.err # "" THEN sendError(400, out.err)
             ELSE sendSuccess(out.rows, Cardinality(out.rows))

\* Handler.GetByZipCode / GetLandByZipCode and GinHandler.GetByZipCode /
\* GetLandByZipCode; zipCode is the last segment of the path.  The Gin routes
\* are registered for GET only.
HandlerGetByZipCode(adapter, kind, method, zipCode) ==
    IF adapter = "http" /\ method # "GET"
    THEN sendError(405, "method not allowed")
    ELSE LET out == GetByZipCode(kind, zipCode)
         IN  IF out.err # "" THEN sendError(400, out.err)
             ELSE IF Cardinality(out.rows) = 0
             THEN sendError(404, "postal code not found")
             ELSE sendSuccess(out.rows, Cardinality(out.rows))

\* page := 1 / limit := 10, replaced by the query parameter when it is not
\* empty and Atoi accepts it
QueryInt(str, default) ==
    IF str # <<>> /\ ~Atoi(str).err THEN Atoi(str).val ELSE default

\* Handler.GetByZipPrefix / GetLandByZipPrefix and their Gin twins: the
\* service is called with the limit as parsed and offset := (page - 1) * limit
HandlerGetByZipPrefix(adapter, kind, method, zipPrefix, pageStr, limitStr) ==
    IF adapter = "http" /\ method # "GET"
    THEN [resps |-> {sendError(405, "method not allowed")}, store |-> <<>>,
          page |-> 0, limit |-> 0]
    ELSE LET page == QueryInt(pageStr, 1)
             limit == QueryInt(limitStr, DefaultLimit)
             offset == (page - 1) * limit
             out == GetByZipPrefix(kind, zipPrefix, limit, offset)
         IN  [resps |-> IF out.err # "" THEN {sendError(400, out.err)}
                        ELSE {sendSuccess(rows, out.total) : rows \in out.pages},
              store |-> out.store, page |-> page, limit |-> limit]

\* GET or POST <prefix>/road/zipcode/<zipCode> (or land) on either adapter
ZipCodeRequest(adapter, kind, method, zipCode) ==
    LET resp == HandlerGetByZipCode(adapter, kind, method, zipCode)
    IN  /\ call' = [op |-> "Handler.GetByZipCode", kind |-> kind,
                    arg |-> [adapter |-> adapter, method |-> method,
                             path |-> zipCode],
                    err |-> resp.error, store |-> <<>>, rows |-> resp.data,
                    pre |-> db[kind], post |-> db[kind],
                    status |-> resp.status, success |-> resp.success,
                    total |-> resp.total, page |-> 0, limit |-> 0]
        /\ UNCHANGED <<db, seq, dialect, up, imp>>

\* <prefix>/road/prefix/<zipPrefix>?page=..&limit=.. (or land)
ZipPrefixRequest(adapter, kind, method, zipPrefix, pageStr, limitStr) ==
    LET out == HandlerGetByZipPrefix(adapter, kind, method, zipPrefix, pageStr, limitStr)
    IN  /\ \E resp \in out.resps :
               call' = [op |-> "Handler.GetByZipPrefix", kind |-> kind,
                        arg |-> [adapter |-> adapter, method |-> method,
                                 path |-> zipPrefix],
                        err |-> resp.error, store |-> out.store,
                        rows |-> resp.data,
                        pre |-> db[kind], post |-> db[kind],
                        status |-> resp.status, success |-> resp.success,
                        total |-> resp.total, page |-> out.page,
                        limit |-> out.limit]
        /\ UNCHANGED <<db, seq, dialect, up, imp>>

\* a request reads the tables and writes nothing: one request per behaviour.
\* The Gin router hands only GET requests to the handlers.
HttpZipCode ==
    \E adapter \in {"http", "gin"} : \E kind \in Kinds :
        \E method \in {"GET", "POST"} :
            \E zipCode \in QueryZipCodes \cup {Z06000} :
                /\ call.op = "none"
                /\ adapter = "http" \/ method = "GET"
                /\ ZipCodeRequest(adapter, kind, method, zipCode)

\* query parameters: absent, not a number, and numbers in and out of range
HttpZipPrefix ==
    \E adapter \in {"http", "gin"} : \E kind \in Kinds :
        \E method \in {"GET", "POST"} : \E zipPrefix \in QueryPrefixes :
            \E pageStr \in {<<>>, <<"x">>, <<"0">>, <<"1">>, <<"2">>, <<"3">>} :
                \E limitStr \in {<<>>, <<"x">>, <<"0">>, <<"-", "1">>, <<"1">>,
                                 <<"2">>, <<"1", "0", "1">>} :
                    /\ call.op = "none"
                    /\ adapter = "http" \/ method = "GET"
                    /\ ZipPrefixRequest(adapter, kind, method, zipPrefix,
                                        pageStr, limitStr)

HttpNext == HttpZipCode \/ HttpZipPrefix

SpecHttp == InitStored /\ [][HttpNext]_vars

----------------------------------------------------------------------------
(* The record parser on the raw columns of a data line: the zip code       *)
(* (record[0]), the underground / mountain flag (record[9] / record[8])    *)
(* and the four numbers (record[10] .. record[13]).  A *int field is a     *)
(* record [set, val].                                                      *)

Nil == [set |-> FALSE, val |-> 0]
Ptr(v) == [set |-> TRUE, val |-> v]

\* if x := strings.TrimSpace(col); x == "1" { IsUnderground / IsMountain = true }
ParseFlag(col) == TrimSpace(col) = <<"1">>

\* StartBuildingMain / StartJibunMain: an int, left 0 unless the column is
\* not blank and Atoi accepts it
ParseStartMain(col) ==
    LET x == TrimSpace(col)
    IN  IF x # <<>> /\ ~Atoi(x).err THEN Atoi(x).val ELSE 0

\* EndBuildingMain / EndJibunMain: a *int, set when the column is not blank
\* and Atoi accepts it
ParseEndMain(col) ==
    LET x == TrimSpace(col)
    IN  IF x # <<>> /\ ~Atoi(x).err THEN Ptr(Atoi(x).val) ELSE Nil

\* a sub-number that is set for the column "0" too
ParseSubKeepsZero(col) ==
    LET x == TrimSpace(col)
    IN  IF x # <<>> /\ ~Atoi(x).err THEN Ptr(Atoi(x).val) ELSE Nil

\* StartBuildingSub, EndBuildingSub, StartJibunSub, EndJibunSub: a *int, set
\* when the column is not blank, not "0" and Atoi accepts it
ParseSub(col) ==
    LET x == TrimSpace(col)
    IN  IF x # <<>> /\ x # <<"0">> /\ ~Atoi(x).err THEN Ptr(Atoi(x).val) ELSE Nil

\* the fields ParseFile / ParseLandFile derive from these columns
ParseRecord(kind, cols) ==
    LET zipCode == TrimSpace(cols.zip)
    IN  [ZipCode |-> zipCode,
         ZipPrefix |-> IF Len(zipCode) >= 3 THEN SubSeq(zipCode, 1, 3) ELSE <<>>,
         Flag |-> ParseFlag(cols.flag),
         StartMain |-> ParseStartMain(cols.startMain),
         StartSub |-> ParseSub(cols.startSub),
         EndMain |-> ParseEndMain(cols.endMain),
         EndSub |-> ParseSub(cols.endSub)]

\* one data line goes through the parser
ParseRecordCall(kind, cols) ==
    /\ call.op = "none"
    /\ call' = [op |-> "ParseRecord", kind |-> kind, arg |-> cols, err |-> "",
                store |-> <<>>, rows |-> {}, pre |-> {}, post |-> {},
                rec |-> ParseRecord(kind, cols)]
    /\ UNCHANGED <<db, seq, dialect, up, imp>>

\* columns: blank, padded, "0", numbers, and text that is not a number
Columns ==
    [zip : {Empty, <<"0", "1">>, Z01000, ZBlank, Z01001Blank},
     flag : {Empty, <<"0">>, <<"1">>, <<" ", "1">>, <<"Y">>},
     startMain : {Empty, <<"0">>, <<"5">>, <<"x">>},
     startSub : {Empty, <<"0">>, <<"0", " ">>, <<"0", "0">>, <<"7">>, <<"x">>,
                 <<"-", "1">>},
     endMain : {Empty, <<"0">>, <<"1", "2">>, <<"x">>},
     endSub : {Empty, <<"0">>, <<"7">>, <<"x">>}]

ParseNext == \E kind \in Kinds : \E cols \in Columns : ParseRecordCall(kind, cols)

SpecParse == InitOne /\ [][ParseNext]_vars

----------------------------------------------------------------------------
(* One caller of Upsert and GetByZipCode, a call at a time, with records   *)
(* of every shape validation tells apart: each rule broken alone and       *)
(* together with a later one, a caller-supplied ZipPrefix, a surrogate ID  *)
(* set by the caller, a zip code with a leading blank.                     *)

UpsertInputs(kind) ==
    IF kind = "road"
    THEN { RoadBase,
           [RoadBase EXCEPT !.RoadNameEn = En2],
           [RoadBase EXCEPT !.ZipCode = Z01001],
           [RoadBase EXCEPT !.SigunguName = Empty],
           [RoadBase EXCEPT !.ZipPrefix = P060],
           [RoadBase EXCEPT !.ID = 1, !.RoadName = Teheran],
           [RoadBase EXCEPT !.ZipCode = ZBlank],
           [RoadBase EXCEPT !.ZipCode = Empty, !.SidoName = Empty],
           [RoadBase EXCEPT !.ZipCode = Z123, !.SidoName = Empty],
           [RoadBase EXCEPT !.SidoName = Empty, !.RoadName = Empty],
           [RoadBase EXCEPT !.RoadName = Empty] }
    ELSE { LandBase,
           [LandBase EXCEPT !.HaengjeongdongName = En2],
           [LandBase EXCEPT !.SigunguName = Empty],
           [LandBase EXCEPT !.ZipPrefix = P060],
           [LandBase EXCEPT !.ZipCode = Empty, !.SidoName = Empty],
           [LandBase EXCEPT !.ZipCode = Z123, !.EupmyeondongName = Empty],
           [LandBase EXCEPT !.SidoName = Empty, !.EupmyeondongName = Empty],
           [LandBase EXCEPT !.EupmyeondongName = Empty] }

ZipCodes == {Z01000, Z01001, ZBlank}

OneCall ==
    \E kind \in Kinds : \E rec \in UpsertInputs(kind) :
        SameTable(kind) /\ UpsertCall(1, kind, rec)

OneWrite == UpsertWrite(1)

\* the caller reads back the zip code of the record it has just written
OneGet ==
    /\ up[1].pc = "done"
    /\ \E zipCode \in ZipCodes : GetByZipCodeCall(up[1].kind, zipCode)

OneNext == OneCall \/ OneWrite \/ OneGet

SpecOne == InitOne /\ [][OneNext]_vars

----------------------------------------------------------------------------
(* C1: in a sequential execution an Upsert of a record without ID whose    *)
(* natural key equals that of a stored row updates that row in place (same *)
(* ID, same row count, the other rows untouched); otherwise it inserts     *)
(* exactly one new row under a fresh ID; the table never holds two rows    *)
(* with the same natural key.                                              *)

NoDuplicateKey ==
    \A k \in Kinds : \A e, f \in db[k] : Key(k, e) = Key(k, f) => e = f

UpsertByNaturalKey ==
    \A p \in Callers :
        (up[p].pc = "found" /\ up'[p].pc = "done") =>
            LET k == up[p].kind
                rec == up[p].rec
                same == {e \in db[k] : Key(k, e) = Key(k, rec)}
            IN  /\ up'[p].err = ""
                /\ IF same # {}
                   THEN \E e \in same :
                          /\ db'[k] = (db[k] \ {e}) \cup {[rec EXCEPT !.ID = e.ID]}
                          /\ Cardinality(db'[k]) = Cardinality(db[k])
                          /\ up'[p].rec.ID = e.ID
                   ELSE \E row \in db'[k] :
                          /\ db'[k] = db[k] \cup {row}
                          /\ Cardinality(db'[k]) = Cardinality(db[k]) + 1
                          /\ row.ID \notin {e.ID : e \in db[k]}
                          /\ Content(k, row) = rec
                          /\ up'[p].rec = row

C1_UpsertByNaturalKey == []NoDuplicateKey /\ [][UpsertByNaturalKey]_vars

\* a stored row has been updated in place by a second Upsert of its natural key
C1_Witness ==
    /\ up[1].pc = "done" /\ up[1].op = "update" /\ up[1].err = ""
    /\ up[1].rec \in db[up[1].kind]
    /\ up[1].rec.ID = 1
    /\ Cardinality(db[up[1].kind]) = 2

----------------------------------------------------------------------------
(* C2: the service adds no mutual exclusion.  A caller whose FindByZipCode *)
(* returned no row matching its record calls Store.Create in its write     *)
(* step whatever another caller has written since, so two concurrent       *)
(* Upserts of one new natural key both attempt the insert.                 *)

StaleMissInserts ==
    \A p \in Callers :
        ( /\ up[p].pc = "found" /\ up'[p].pc = "done"
          /\ \A e \in up[p].existing : ~Match(up[p].kind, e, up[p].rec) )
        => up'[p].op = "create"

C2_ConcurrentUpsertsBothInsert == [][StaleMissInserts]_vars

\* both callers found nothing for the same new natural key and both called
\* Create; the first insert was stored, so the second caller's find ran
\* before it
C2_Witness ==
    /\ up[1].pc = "done" /\ up[2].pc = "done"
    /\ up[1].op = "create" /\ up[2].op = "create"
    /\ up[1].existing = {} /\ up[2].existing = {}
    /\ RoadKey(up[1].rec) = RoadKey(up[2].rec)
    /\ up[1].err = "" /\ up[1].rec \in db["road"]
    /\ up[2].err # ""
----------------------------------------------------------------------------
(* What the import claims speak of *)

Returned == imp.pc = "done"
ReturnedResult == imp.pc = "done" /\ imp.err = ""
TruncateFailed == imp.err = "failed to truncate existing data"

Contents(kind, rows) == {Content(kind, r) : r \in rows}

\* the records of the file: one per data line with the required columns
FileRecords(kind, file) ==
    {ParseLine(kind, file.lines[j]) :
        j \in {n \in 1..Len(file.lines) : file.lines[n].cols >= RequiredColumns(kind)}}

LongLines(kind, file) ==
    Cardinality({n \in 1..Len(file.lines) : file.lines[n].cols >= RequiredColumns(kind)})

ShortLines(kind, file) ==
    Cardinality({n \in 1..Len(file.lines) : file.lines[n].cols < RequiredColumns(kind)})

RECURSIVE SentRecords(_, _)
\* the records of the batches BatchUpsert failed (failed = TRUE) or stored
SentRecords(sent, failed) ==
    IF sent = <<>> THEN 0
    ELSE (IF Head(sent).failed = failed THEN Head(sent).to - Head(sent).from ELSE 0)
         + SentRecords(Tail(sent), failed)

----------------------------------------------------------------------------
(* C3: an import is a full replacement.  The table is emptied before the   *)
(* first batch is inserted; when the call returns a result every stored    *)
(* row is a record of the file, and a row the table held before the call   *)
(* is there only if the file supplies it again.                            *)

C3_ImportReplacesTable ==
    /\ (imp.pc \in {"count", "parse"} \/ (imp.pc = "batch" /\ imp.sent = <<>>))
           => db[imp.kind] = {}
    /\ ReturnedResult =>
           /\ Contents(imp.kind, db[imp.kind]) \subseteq FileRecords(imp.kind, imp.file)
           /\ \A old \in imp.pre :
                  Content(imp.kind, old) \in Contents(imp.kind, db[imp.kind])
                      => Content(imp.kind, old) \in FileRecords(imp.kind, imp.file)

\* a result was returned; of the two rows the table held, the one the file
\* does not supply is gone and the one it supplies is stored
C3_Witness ==
    /\ ReturnedResult
    /\ Cardinality(imp.pre) = 2
    /\ \E old \in imp.pre :
           Content(imp.kind, old) \notin Contents(imp.kind, db[imp.kind])
    /\ \E old \in imp.pre :
           Content(imp.kind, old) \in Contents(imp.kind, db[imp.kind])

----------------------------------------------------------------------------
(* C4: when the file cannot be opened or read the import returns an error  *)
(* and no result, the failure is found by the line count before any        *)
(* mutation, and the table holds the rows it held before the call.         *)

C4_UnreadableFileLeavesTable ==
    (Returned /\ imp.file.state # "ok" /\ ~TruncateFailed) =>
        /\ imp.err = "failed to count lines"
        /\ imp.result = NoResult
        /\ db[imp.kind] = imp.pre

----------------------------------------------------------------------------
(* C5: a file that holds only a header line makes the import return an     *)
(* error and no result, never a result with zero records.                  *)

HeaderOnly(file) == file.state = "ok" /\ file.header > 0 /\ file.lines = <<>>

C5_HeaderOnlyFileIsAnError ==
    (Returned /\ HeaderOnly(imp.file)) => (imp.err # "" /\ imp.result = NoResult)

----------------------------------------------------------------------------
(* C6: batches are counted whole.  The records of every batch BatchUpsert  *)
(* failed are in errorCount, those of every batch it stored are in         *)
(* successCount; the final errorCount is the data lines without a record   *)
(* plus the records of failed batches, and successCount + errorCount is    *)
(* the number of data lines.                                               *)

C6_WholeBatchAccounting ==
    /\ imp.pc = "batch" =>
           /\ imp.errorCount = SentRecords(imp.sent, TRUE)
           /\ imp.totalCount = SentRecords(imp.sent, FALSE)
    /\ ReturnedResult =>
           /\ imp.result.TotalCount = SentRecords(imp.sent, FALSE)
           /\ imp.result.ErrorCount =
                  (Len(imp.file.lines) - Len(imp.recs)) + SentRecords(imp.sent, TRUE)
           /\ imp.result.TotalCount + imp.result.ErrorCount = Len(imp.file.lines)

\* a result after a failed batch of two records and a stored batch
C6_Witness ==
    /\ ReturnedResult
    /\ Len(imp.sent) = 2
    /\ imp.sent[1].failed /\ imp.sent[1].to - imp.sent[1].from = 2
    /\ ~imp.sent[2].failed
    /\ imp.result.TotalCount = 1 /\ imp.result.ErrorCount = 2

----------------------------------------------------------------------------
(* C7: a data line with fewer than the required columns gives no record,   *)
(* counts as exactly one error and neither stops the parse nor fails the   *)
(* import: with g lines of the required columns and s short lines the      *)
(* import returns a result with successCount = g and errorCount = s, the   *)
(* records of batches that failed to persist moving from the first to the  *)
(* second.                                                                 *)

----------------------------------------------------------------------------
(* C8: a progress callback is called once after each batch, stored or      *)
(* failed, with (processed, total), total being the number of parsed       *)
(* records; processed grows strictly and ends at total; a nil callback is  *)
(* never called and fails nothing.                                         *)

C8_ProgressAfterEachBatch ==
    /\ ~imp.progressFn => imp.calls = <<>>
    /\ imp.progressFn =>
           /\ Len(imp.calls) = Len(imp.sent)
           /\ \A j \in 1..Len(imp.calls) :
                  /\ imp.calls[j][1] = imp.sent[j].to
                  /\ imp.calls[j][2] = Len(imp.recs)
                  /\ j > 1 => imp.calls[j - 1][1] < imp.calls[j][1]
    /\ (ReturnedResult /\ imp.progressFn /\ Len(imp.recs) > 0) =>
           /\ imp.calls # <<>>
           /\ imp.calls[Len(imp.calls)][1] = Len(imp.recs)
    /\ (Returned /\ ~imp.progressFn /\ imp.file.state = "ok" /\ imp.file.header > 0
            /\ ~TruncateFailed) => imp.err = ""

\* two callbacks, the first after a failed batch
C8_Witness ==
    /\ ReturnedResult /\ imp.progressFn
    /\ Len(imp.calls) = 2
    /\ imp.sent[1].failed
    /\ imp.calls[1][1] < imp.calls[2][1]
    /\ imp.calls[2][1] = Len(imp.recs)

----------------------------------------------------------------------------
(* C9: a batch that fails to persist is not fatal and not retried: every   *)
(* batch goes to BatchUpsert exactly once, in file order, the batches      *)
(* after a failed one are still submitted, and the call returns a result.  *)

C9_FailedBatchNotFatalNotRetried ==
    /\ \A j \in 1..Len(imp.sent) :
           /\ imp.sent[j].from = (j - 1) * imp.batchSize
           /\ imp.sent[j].to = Min(imp.sent[j].from + imp.batchSize, Len(imp.recs))
    /\ Returned =>
           IF imp.err = ""
           THEN imp.sent = <<>> => Len(imp.recs) = 0
           ELSE imp.sent = <<>>
    /\ (Returned /\ imp.sent # <<>>) =>
           /\ imp.err = "" /\ imp.result # NoResult
           /\ imp.sent[Len(imp.sent)].to = Len(imp.recs)

\* the first batch failed, the second was still submitted and stored, and a
\* result was returned
C9_Witness ==
    /\ ReturnedResult /\ imp.result # NoResult
    /\ Len(imp.sent) >= 2
    /\ imp.sent[1].failed /\ ~imp.sent[2].failed
    /\ db[imp.kind] # {}

----------------------------------------------------------------------------
(* C10: a failed truncate makes the import return an error and no result,  *)
(* submits no batch and leaves the table with the rows it held before.     *)

C10_TruncateFailureLeavesTable ==
    (Returned /\ TruncateFailed) =>
        /\ imp.result = NoResult
        /\ imp.sent = <<>>
        /\ db[imp.kind] = imp.pre
----------------------------------------------------------------------------
(* What the batch claims speak of *)

NoValidRecords == "no valid records in batch"

IsValid(kind, rec) ==
    /\ rec.ZipCode # <<>> /\ Len(rec.ZipCode) = 5 /\ rec.SidoName # <<>>
    /\ IF kind = "road" THEN rec.RoadName # <<>> ELSE rec.EupmyeondongName # <<>>

\* the valid records of a batch in input order, as the store must receive them
Survivors(kind, recs) ==
    LET sel == SelectSeq(recs, LAMBDA r : IsValid(kind, r))
    IN  [j \in 1..Len(sel) |->
            IF sel[j].ZipPrefix = <<>>
            THEN [sel[j] EXCEPT !.ZipPrefix = SubSeq(sel[j].ZipCode, 1, 3)]
            ELSE sel[j]]

----------------------------------------------------------------------------
(* C11: BatchUpsert / BatchUpsertLand validates each record on its own.    *)
(* Invalid records are skipped and never stored, the valid records go to   *)
(* the store in input order in one BatchCreate call, and the call fails    *)
(* for validation reasons only when no record of the input is valid.       *)

C11_BatchSkipsInvalidRecords ==
    call.op = "BatchUpsert" =>
        LET valid == Survivors(call.kind, call.arg)
        IN  /\ (call.err = NoValidRecords) <=> (valid = <<>>)
            /\ valid # <<>> => call.store = <<valid>>
            /\ valid = <<>> => (call.store = <<>> /\ call.post = call.pre)
            /\ \A row \in call.post \ call.pre :
                   /\ IsValid(call.kind, row)
                   /\ \E j \in 1..Len(valid) : Content(call.kind, row) = valid[j]

\* a batch of an invalid record and a valid one: no error, one record handed
\* to the store and stored
C11_Witness ==
    /\ call.op = "BatchUpsert" /\ call.err = ""
    /\ Len(call.arg) = 2
    /\ ~IsValid(call.kind, call.arg[1]) /\ IsValid(call.kind, call.arg[2])
    /\ Len(call.store) = 1 /\ Len(call.store[1]) = 1
    /\ Cardinality(call.post) = Cardinality(call.pre) + 1

----------------------------------------------------------------------------
(* C12: BatchUpsert is idempotent on the row count.  A second run of a     *)
(* batch on the table the first run left stores no additional row: a       *)
(* record whose natural key is stored updates that row.                    *)

SecondRunAddsNoRow ==
    ( /\ call.op = "BatchUpsert" /\ call.err = ""
      /\ call.post = db[call.kind]
      /\ call'.op = "BatchUpsert" /\ call'.err = ""
      /\ call'.kind = call.kind /\ call'.arg = call.arg
      /\ call'.pre = db[call.kind] /\ call'.post = db'[call.kind]
      /\ UNCHANGED <<up, imp>> )
    => Cardinality(db'[call.kind]) = Cardinality(db[call.kind])

C12_BatchUpsertIdempotentCount == [][SecondRunAddsNoRow]_vars

\* a batch of two records with two natural keys has run on a table that held
\* both keys and has left two rows
C12_Witness ==
    /\ call.op = "BatchUpsert" /\ call.err = ""
    /\ Len(call.arg) = 2
    /\ Key(call.kind, call.arg[1]) # Key(call.kind, call.arg[2])
    /\ \A j \in 1..2 : \E e \in call.pre : Key(call.kind, e) = Key(call.kind, call.arg[j])
    /\ Cardinality(call.pre) = 2 /\ Cardinality(call.post) = 2

----------------------------------------------------------------------------
(* C13: NoValidRecords is the outcome of a non-empty input of which every  *)
(* record failed validation; an empty input has another outcome.           *)

C13_NoValidRecordsOnlyForAllInvalid ==
    (call.op = "BatchUpsert" /\ call.err = NoValidRecords) =>
        /\ call.arg # <<>>
        /\ \A j \in 1..Len(call.arg) : ~IsValid(call.kind, call.arg[j])

----------------------------------------------------------------------------
(* What the Upsert claims speak of *)

ValidationMessages ==
    {"zip code is required", "zip code must be 5 digits", "sido name is required",
     "road name is required", "eupmyeondong name is required"}

NameOf(kind, rec) == IF kind = "road" THEN rec.RoadName ELSE rec.EupmyeondongName

NameRequired(kind) ==
    IF kind = "road" THEN "road name is required" ELSE "eupmyeondong name is required"

\* the call of caller 1 has returned without error after a store write
Written == up[1].pc = "done" /\ up[1].err = "" /\ up[1].op # ""

----------------------------------------------------------------------------
(* C14: Upsert / UpsertLand rejects a record exactly when zipCode is       *)
(* empty, zipCode is not 5 long, sidoName is empty or roadName /           *)
(* eupmyeondongName is empty, and reports the first rule broken, in that   *)
(* order; an empty sigunguName is accepted; a rejected call makes no store *)
(* operation and leaves the record as it was.                              *)

RejectsByFirstRule ==
    up[1].pc # "idle" =>
        LET a == up[1].arg
            k == up[1].kind
            e == up[1].err
            zipOk == a.ZipCode # <<>> /\ Len(a.ZipCode) = 5
        IN  /\ (e = "zip code is required") <=> (a.ZipCode = <<>>)
            /\ (e = "zip code must be 5 digits") <=>
                   (a.ZipCode # <<>> /\ Len(a.ZipCode) # 5)
            /\ (e = "sido name is required") <=> (zipOk /\ a.SidoName = <<>>)
            /\ (e = NameRequired(k)) <=>
                   (zipOk /\ a.SidoName # <<>> /\ NameOf(k, a) = <<>>)
            /\ e \in ValidationMessages =>
                   /\ up[1].pc = "done" /\ up[1].op = "" /\ up[1].existing = {}
                   /\ up[1].rec = a

RejectionWritesNothing ==
    (up'[1] # up[1] /\ up'[1].err \in ValidationMessages) => UNCHANGED <<db, seq>>

C14_UpsertValidation == []RejectsByFirstRule /\ [][RejectionWritesNothing]_vars

\* a record with a zip code of three characters and no province is rejected
\* for its zip code, on a table that holds a row
C14_Witness ==
    /\ up[1].pc = "done"
    /\ up[1].arg.ZipCode = Z123 /\ up[1].arg.SidoName = <<>>
    /\ up[1].err = "zip code must be 5 digits"
    /\ up[1].rec = up[1].arg
    /\ db[up[1].kind] # {}

----------------------------------------------------------------------------
(* C15: after a successful Upsert the caller's record carries the non-zero *)
(* surrogate ID of the stored row and, when its zipPrefix was empty on     *)
(* entry, the first 3 characters of its zipCode as zipPrefix.              *)

C15_UpsertMutatesRecord ==
    Written =>
        /\ up[1].rec.ID > 0
        /\ up[1].rec \in db[up[1].kind]
        /\ up[1].arg.ZipPrefix = <<>> =>
               up[1].rec.ZipPrefix = SubSeq(up[1].rec.ZipCode, 1, 3)

----------------------------------------------------------------------------
(* C16: round trip.  After a valid record r was written with Upsert, a     *)
(* GetByZipCode(r.zipCode) returns a record equal to r in every field but  *)
(* the surrogate ID.                                                       *)

C16_UpsertGetRoundTrip ==
    ( /\ Written
      /\ call.op = "GetByZipCode" /\ call.kind = up[1].kind
      /\ call.arg = up[1].rec.ZipCode
      /\ call.pre = db[call.kind] )
    => /\ call.err = ""
       /\ \E e \in call.rows :
              Content(call.kind, e) = Content(call.kind, up[1].rec)

\* the record was written as an update of a stored row and read back among
\* two rows of its zip code
C16_Witness ==
    /\ Written /\ up[1].op = "update"
    /\ call.op = "GetByZipCode" /\ call.kind = up[1].kind
    /\ call.arg = up[1].rec.ZipCode /\ call.pre = db[call.kind]
    /\ up[1].rec \in call.rows
    /\ Cardinality(call.rows) = 2

----------------------------------------------------------------------------
(* C17: every stored row with a non-empty zipPrefix has the first 3        *)
(* characters of its zipCode as zipPrefix, whatever zipPrefix the caller   *)
(* supplied and whichever path wrote the row.                              *)

C17_ZipPrefixOfStoredRows ==
    \A k \in Kinds : \A r \in db[k] :
        r.ZipPrefix # <<>> => r.ZipPrefix = SubSeq(r.ZipCode, 1, 3)

----------------------------------------------------------------------------
(* C18: after a truncate that succeeded the table is empty and the         *)
(* surrogate-ID sequence is reset: the next row inserted gets ID 1         *)
(* whatever the highest ID handed out before was.                          *)

TruncateEmpties ==
    (call.op = "Truncate" /\ call.err = "") => (call.post = {} /\ db[call.kind] = {})

NextInsertGetsInitialID ==
    ( /\ call.op = "Truncate" /\ call.err = ""
      /\ call'.op = "BatchUpsert" /\ call'.err = "" /\ call'.kind = call.kind )
    => \E row \in db'[call.kind] : row.ID = 1

C18_TruncateResetsIdentity == []TruncateEmpties /\ [][NextInsertGetsInitialID]_vars
----------------------------------------------------------------------------
(* C19: GetByZipCode / GetLandByZipCode returns an error without a store   *)
(* query exactly when the code is empty or not 5 long; for a code of       *)
(* length 5 it returns exactly the stored rows whose zipCode is the code.  *)

----------------------------------------------------------------------------
(* C20: GetByZipPrefix / GetLandByZipPrefix fails when the prefix is empty *)
(* or not 3 long; otherwise the store is called with limit L = limit when  *)
(* 1 <= limit <= 100 and L = 10 for every other value, and offset          *)
(* O = max(offset, 0), and a successful call returns at most L, so never   *)
(* more than 100, rows.                                                    *)

C20_GetByZipPrefix ==
    call.op = "GetByZipPrefix" =>
        LET a == call.arg
            L == IF 1 <= a.limit /\ a.limit <= 100 THEN a.limit ELSE 10
            O == IF a.offset >= 0 THEN a.offset ELSE 0
            matching == {r \in call.pre : r.ZipPrefix = a.zipPrefix}
        IN  IF a.zipPrefix = <<>> \/ Len(a.zipPrefix) # 3
            THEN call.err # "" /\ call.store = <<>> /\ call.rows = {}
            ELSE /\ call.err = ""
                 /\ call.store = <<[zipPrefix |-> a.zipPrefix, limit |-> L,
                                    offset |-> O]>>
                 /\ call.rows \subseteq matching
                 /\ a.total = Cardinality(matching)
                 /\ Cardinality(call.rows) <= L
                 /\ Cardinality(call.rows) <= 100
                 /\ Cardinality(call.rows) =
                        Min(L, Max(Cardinality(matching) - O, 0))

\* limit 1 and a negative offset on a table with two rows of the prefix: the
\* store is asked for 1 row from offset 0 and one row comes back
C20_Witness ==
    /\ call.op = "GetByZipPrefix" /\ call.err = ""
    /\ call.arg.limit = 1 /\ call.arg.offset = -1
    /\ call.store[1].limit = 1 /\ call.store[1].offset = 0
    /\ call.arg.total = 2
    /\ Cardinality(call.rows) = 1
----------------------------------------------------------------------------
(* C21: for a prefix lookup the total is the number of all stored rows     *)
(* with the prefix, whatever limit and offset are, and the page holds      *)
(* min(L, max(0, total - O)) rows for the limit L and the offset O the     *)
(* store is called with.                                                   *)

C21_PrefixTotalAndPage ==
    (call.op = "GetByZipPrefix" /\ call.err = "") =>
        LET total == Cardinality({r \in call.pre : r.ZipPrefix = call.arg.zipPrefix})
            L == call.store[1].limit
            O == call.store[1].offset
            rest == IF total - O > 0 THEN total - O ELSE 0
        IN  /\ call.arg.total = total
            /\ Cardinality(call.rows) = (IF L <= rest THEN L ELSE rest)

\* two rows with the prefix, limit 1 and offset 1: the second page has one
\* row and the total is 2
C21_Witness ==
    /\ call.op = "GetByZipPrefix" /\ call.err = ""
    /\ call.arg.limit = 1 /\ call.arg.offset = 1
    /\ call.arg.total = 2
    /\ Cardinality(call.rows) = 1
----------------------------------------------------------------------------
(* Helpers for the search claims *)

\* filter occurs in value as a run of consecutive characters
Contains(value, filter) ==
    \E i \in 1..(Len(value) - Len(filter) + 1) :
        SubSeq(value, i, i + Len(filter) - 1) = filter

\* a name filter as a substring test
NameContains(value, filter) == filter = <<>> \/ Contains(value, filter)

\* r satisfies every non-empty filter of params: exact zip code and prefix,
\* substring of each name
Satisfies(kind, params, r) ==
    /\ params.ZipCode = <<>> \/ r.ZipCode = params.ZipCode
    /\ params.ZipPrefix = <<>> \/ r.ZipPrefix = params.ZipPrefix
    /\ NameContains(r.SidoName, params.SidoName)
    /\ NameContains(r.SigunguName, params.SigunguName)
    /\ IF kind = "road"
       THEN NameContains(r.RoadName, params.RoadName)
       ELSE /\ NameContains(r.EupmyeondongName, params.EupmyeondongName)
            /\ NameContains(r.RiName, params.RiName)

IsSearch == call.op \in {"Search", "Repository.Search"}
----------------------------------------------------------------------------
(* C22: Search / SearchLand of the service hands the store the caller's    *)
(* params with the limit replaced by 10 unless it is in 1..100 and the     *)
(* page replaced by 1 unless it is positive; every filter string is the    *)
(* caller's; the offset (page-1)*limit the store computes is not negative. *)

----------------------------------------------------------------------------
(* C23: the total of a search is the number of stored rows that satisfy    *)
(* every non-empty filter, zip code and prefix by equality and the names   *)
(* by containing the filter as a substring, whatever page and limit are.   *)

C23_SearchTotalCountsSubstringMatches ==
    IsSearch =>
        call.total = Cardinality({r \in call.pre : Satisfies(call.kind, call.arg, r)})
----------------------------------------------------------------------------
(* C28: the store's Search / SearchLand called directly uses the page size *)
(* S = 10 when the limit is not positive and the limit otherwise, and for  *)
(* a page p >= 1 skips (p-1)*S rows of the filtered set and returns the    *)
(* next S of them; the offset it applies is never negative.                *)

C28_StoreSearchPagesByAppliedSize ==
    call.op = "Repository.Search" =>
        LET S == IF call.arg.Limit > 0 THEN call.arg.Limit ELSE 10
            p == call.arg.Page
            rest == IF call.total - (p - 1) * S > 0 THEN call.total - (p - 1) * S ELSE 0
        IN  /\ call.limit = S
            /\ call.offset >= 0
            /\ p >= 1 => /\ call.offset = (p - 1) * S
                         /\ Cardinality(call.rows) = (IF S <= rest THEN S ELSE rest)
----------------------------------------------------------------------------
(* Helpers for the independence of the two tables *)

OtherKind(kind) == IF kind = "road" THEN "land" ELSE "road"

\* an Upsert step moves the caller's position, an import step moves the
\* import's position or its batch index, every other step is a whole call
UpsertStep == up'[1].pc # up[1].pc
ImportStep == imp'.pc # imp.pc \/ imp'.i # imp.i
CallStep == ~UpsertStep /\ ~ImportStep

\* the kind of the operation that takes the step
StepKind ==
    IF UpsertStep THEN up'[1].kind
    ELSE IF ImportStep THEN imp'.kind
    ELSE call'.kind

\* r has the columns of a row of the kind's table
IsRowOf(kind, r) ==
    DOMAIN r = DOMAIN (IF kind = "road" THEN RoadBase ELSE LandBase)

IsLookup(c) == c.op \in {"GetByZipCode", "GetByZipPrefix"}
----------------------------------------------------------------------------
(* C24: a step of a road operation (Upsert, BatchUpsert, TruncateRoad,     *)
(* ImportFromFile) leaves the rows and the identity counter of the land    *)
(* table as they were, a step of a land operation leaves those of the road *)
(* table, and a lookup returns rows of its own table only.                 *)

C24_TablesIndependent ==
    /\ [](\A k \in Kinds : \A r \in db[k] : IsRowOf(k, r))
    /\ [][ /\ db'[OtherKind(StepKind)] = db[OtherKind(StepKind)]
           /\ seq'[OtherKind(StepKind)] = seq[OtherKind(StepKind)]
           /\ (CallStep /\ IsLookup(call')) =>
                  /\ call'.rows \subseteq db[call'.kind]
                  /\ \A r \in call'.rows : IsRowOf(call'.kind, r) ]_vars

\* the road table was truncated while the land table held rows, and holds
\* them still
C24_Witness ==
    /\ call.op = "Truncate" /\ call.kind = "road" /\ call.err = ""
    /\ call.pre # {} /\ db["road"] = {}
    /\ db["land"] = SeedRows("land")
----------------------------------------------------------------------------
(* C25: on both adapters the zipcode endpoint answers 400 with success     *)
(* false and the service's message when the service rejects the code, 404  *)
(* with the error "postal code not found" when the code is valid and no    *)
(* row has it, and otherwise 200 with success true, the rows with the code *)
(* and total equal to their number.                                        *)

C25_ZipCodeEndpointStatus ==
    (call.op = "Handler.GetByZipCode" /\ call.arg.method = "GET") =>
        LET zipCode == call.arg.path
            found == {r \in call.pre : r.ZipCode = zipCode}
        IN  IF zipCode = <<>> \/ Len(zipCode) # 5
            THEN /\ call.status = 400 /\ ~call.success
                 /\ call.err \in {"zip code is required",
                                   "zip code must be 5 digits"}
            ELSE IF found = {}
            THEN /\ call.status = 404 /\ ~call.success
                 /\ call.err = "postal code not found"
            ELSE /\ call.status = 200 /\ call.success
                 /\ call.rows = found
                 /\ call.total = Cardinality(call.rows)

\* the Gin adapter is asked for a well-formed code that no road row has
C25_Witness ==
    /\ call.op = "Handler.GetByZipCode" /\ call.arg.adapter = "gin"
    /\ call.arg.path = Z01001 /\ call.pre # {}
    /\ call.status = 404
----------------------------------------------------------------------------
(* C27: a prefix endpoint called with page p >= 1 and limit l answers with *)
(* the p-th page of the rows with the prefix at the page size L the        *)
(* service applies (l when 1 <= l <= 100, else 10): the store is asked for *)
(* L rows from offset (p-1)*L.                                             *)

C27_PrefixEndpointPages ==
    (call.op = "Handler.GetByZipPrefix" /\ call.status = 200 /\ call.page >= 1) =>
        LET l == call.limit
            L == IF l >= 1 /\ l <= 100 THEN l ELSE 10
            O == (call.page - 1) * L
            rest == IF call.total - O > 0 THEN call.total - O ELSE 0
        IN  /\ call.store[1].limit = L
            /\ call.store[1].offset = O
            /\ Cardinality(call.rows) = (IF L <= rest THEN L ELSE rest)
----------------------------------------------------------------------------
(* C26: when an import returns a result, successCount is the number of     *)
(* file records this import handed to the store and the store wrote; every *)
(* other data line, a record BatchUpsert skipped as invalid inside a       *)
(* stored batch included, is in errorCount.                                *)

RECURSIVE Persisted(_)
\* the records of the stored batches that passed BatchUpsert's validation
Persisted(sent) ==
    IF sent = <<>> THEN 0
    ELSE (IF Head(sent).failed THEN 0
          ELSE Len(ValidRecords(imp.kind,
                       SubSeq(imp.recs, Head(sent).from + 1, Head(sent).to))))
         + Persisted(Tail(sent))

C26_SuccessCountIsPersisted ==
    ReturnedResult =>
        /\ imp.result.TotalCount = Persisted(imp.sent)
        /\ imp.result.ErrorCount = imp.totalLines - Persisted(imp.sent)
----------------------------------------------------------------------------
(* C29: the batch loop of an import ends for every batch size, the size    *)
(* used being at least 1 (1000 in place of a size <= 0); the batches are   *)
(* consecutive slices of the parsed records in file order, each of exactly *)
(* batchSize records but the last, which has 1..batchSize, and when the    *)
(* loop is over they are ceil(n / batchSize) and cover the n records.      *)

BatchLen(b) == b.to - b.from

BatchesPartition ==
    /\ imp.pc # "idle" => imp.batchSize >= 1
    /\ \A j \in 1..Len(imp.sent) :
           /\ imp.sent[j].from = (IF j = 1 THEN 0 ELSE imp.sent[j - 1].to)
           /\ BatchLen(imp.sent[j]) >= 1
           /\ BatchLen(imp.sent[j]) <= imp.batchSize
           /\ j < Len(imp.sent) => BatchLen(imp.sent[j]) = imp.batchSize
           /\ imp.sent[j].to <= Len(imp.recs)
    /\ ReturnedResult =>
           /\ Len(imp.sent) = (Len(imp.recs) + imp.batchSize - 1) \div imp.batchSize
           /\ imp.sent # <<>> => imp.sent[Len(imp.sent)].to = Len(imp.recs)

C29_BatchLoopTerminatesAndPartitions ==
    /\ []BatchesPartition
    /\ (imp.pc = "batch") ~> (imp.pc = "done")

\* three parsed records in batches of two: a batch of two and a batch of one
C29_Witness ==
    /\ ReturnedResult
    /\ Len(imp.recs) = 3 /\ imp.batchSize = 2
    /\ Len(imp.sent) = 2
    /\ BatchLen(imp.sent[1]) = 2 /\ BatchLen(imp.sent[2]) = 1
----------------------------------------------------------------------------
(* What the parser claim speaks of *)

\* the column without the blanks around it
Trimmed(col) ==
    LET keep == {i \in 1..Len(col) : col[i] # " "}
    IN  IF keep = {} THEN <<>>
        ELSE SubSeq(col, CHOOSE i \in keep : \A j \in keep : i <= j,
                         CHOOSE i \in keep : \A j \in keep : i >= j)

\* the integers among the columns used, and their values
IntegerColumns == {<<"0">>, <<"0", "0">>, <<"5">>, <<"7">>, <<"1", "2">>, <<"-", "1">>}

ValueOf(x) ==
    CASE x = <<"0">> -> 0 [] x = <<"0", "0">> -> 0 [] x = <<"5">> -> 5
      [] x = <<"7">> -> 7 [] x = <<"1", "2">> -> 12 [] x = <<"-", "1">> -> 0 - 1

\* a main number is read as a plain integer, 0 included
MainNumbersParsed ==
    /\ Trimmed(call.arg.startMain) \in IntegerColumns =>
           call.rec.StartMain = ValueOf(Trimmed(call.arg.startMain))
    /\ Trimmed(call.arg.endMain) \in IntegerColumns =>
           call.rec.EndMain = Ptr(ValueOf(Trimmed(call.arg.endMain)))

\* the flag is true exactly for the column "1"
FlagParsed == call.rec.Flag <=> (Trimmed(call.arg.flag) = <<"1">>)

\* zipPrefix is the first three characters of the trimmed zip column
ZipPrefixParsed ==
    LET zip == Trimmed(call.arg.zip)
    IN  /\ call.rec.ZipCode = zip
        /\ call.rec.ZipPrefix = (IF Len(zip) >= 3 THEN <<zip[1], zip[2], zip[3]>> ELSE <<>>)

\* a sub-number is unset exactly for a blank column and the column "0"
SubUnsetForBlankOrZero(col, field) ==
    LET x == Trimmed(col)
    IN  IF x = <<>> \/ x = <<"0">> THEN ~field.set
        ELSE field.set /\ x \in IntegerColumns /\ field.val = ValueOf(x)

\* a sub-number is unset exactly for a blank column, the column "0" and a
\* column that is not an integer
SubUnsetForBlankZeroOrText(col, field) ==
    LET x == Trimmed(col)
    IN  IF x = <<>> \/ x = <<"0">> \/ x \notin IntegerColumns THEN field = Nil
        ELSE field = Ptr(ValueOf(x))
----------------------------------------------------------------------------
(* C30 as stated: the parser leaves a sub-number unset exactly when its    *)
(* column is blank or "0" and otherwise sets it to the parsed integer; a   *)
(* main number is parsed as a plain integer, 0 included; the flag is true  *)
(* exactly for the column "1"; zipPrefix is the first 3 characters of the  *)
(* trimmed zip column, empty when that is shorter.                         *)

C30_SubNumberUnsetOnlyForBlankOrZero ==
    call.op = "ParseRecord" =>
        /\ SubUnsetForBlankOrZero(call.arg.startSub, call.rec.StartSub)
        /\ SubUnsetForBlankOrZero(call.arg.endSub, call.rec.EndSub)
        /\ MainNumbersParsed
        /\ FlagParsed
        /\ ZipPrefixParsed

(* C30, amended: the parser leaves a sub-number unset exactly when its     *)
(* trimmed column is blank, "0" or not an integer, and otherwise sets it   *)
(* to the parsed integer; a main number that is not an integer leaves the  *)
(* start number 0 and the end number unset; the rest as stated.            *)

C30_SubNumberUnsetForBlankZeroOrText ==
    call.op = "ParseRecord" =>
        /\ SubUnsetForBlankZeroOrText(call.arg.startSub, call.rec.StartSub)
        /\ SubUnsetForBlankZeroOrText(call.arg.endSub, call.rec.EndSub)
        /\ MainNumbersParsed
        /\ Trimmed(call.arg.startMain) \notin IntegerColumns => call.rec.StartMain = 0
        /\ Trimmed(call.arg.endMain) \notin IntegerColumns => call.rec.EndMain = Nil
        /\ FlagParsed
        /\ ZipPrefixParsed

\* a start sub-number column that is text and an end sub-number column "7",
\* on a line with the flag " 1" and a padded zip code: the first is unset,
\* the second is 7
C30_Witness ==
    /\ call.op = "ParseRecord"
    /\ call.arg.startSub = <<"x">> /\ call.rec.StartSub = Nil
    /\ call.arg.endSub = <<"7">> /\ call.rec.EndSub = Ptr(7)
    /\ call.arg.flag = <<" ", "1">> /\ call.rec.Flag
    /\ call.arg.zip = Z01001Blank /\ call.rec.ZipPrefix = P010
====
